---------------------------- MODULE Spec2Model ----------------------------
(***************************************************************************)
(* State-machine model of the BoringSSL revision-roll scripts:             *)
(*   - src/roll_boringssl.go   (the roll with the Zircon subset sync)      *)
(*   - src/unnamed/part_002    (the earlier roll with the root-cert bundle)*)
(* One action per step of main; every external command is one step whose   *)
(* outcome (exit status) is chosen by the environment.                     *)
(***************************************************************************)
EXTENDS Integers, Sequences, FiniteSets, TLC

(***************************************************************************)
(* Bounds of the model.                                                    *)
(***************************************************************************)
\* number of invocations of the script in one behaviour
MaxRuns == 2
\* number of distinct revisions the upstream reference may resolve to
NumRevs == 2
\* number of distinct file contents a tree may hold
NumContents == 2

(***************************************************************************)
(* Bytes, revisions, git output.                                           *)
(***************************************************************************)
\* length of a hex-encoded SHA-1 commit id, as printed by git rev-list
RevLen == 40

Hex == <<"0","1","2","3","4","5","6","7","8","9","a","b","c","d","e","f">>

\* a hex string of length n, different for different k
MkHex(k, n) == [i \in 1..n |-> Hex[((k * 7 + i * 3) % 16) + 1]]

MkRev(k) == MkHex(k, RevLen)

Min(a, b) == IF a < b THEN a ELSE b
Max(a, b) == IF a > b THEN a ELSE b

IsSpace(c) == c \in {" ", "\n", "\t", "\r"}

RECURSIVE TrimLeft(_)
TrimLeft(s) ==
    IF s # <<>> /\ IsSpace(Head(s)) THEN TrimLeft(Tail(s)) ELSE s

RECURSIVE TrimRight(_)
TrimRight(s) ==
    IF s # <<>> /\ IsSpace(s[Len(s)])
    THEN TrimRight(SubSeq(s, 1, Len(s) - 1))
    ELSE s

\* strings.TrimSpace
TrimSpace(s) == TrimRight(TrimLeft(s))

\* output of `git rev-list HEAD --max-count=1`: the commit id and a newline
gitRevList(rev) == rev \o <<"\n">>

\* the -commit flag: a symbolic upstream reference, not a commit id
commit == <<"o","r","i","g","i","n","/","u","p","s","t","r","e","a","m">>

\* repositories the script touches
Src == "third_party/boringssl/src"
Boring == "third_party/boringssl"
Zircon == "zircon"
Garnet == "garnet"
Repos == {Src, Boring, Zircon, Garnet}

\* the commit a `git commit` in repository r creates in run n
CommitRev(r, n) ==
    MkRev(10 + 4 * n + (CASE r = Src -> 0 [] r = Boring -> 1
                          [] r = Zircon -> 2 [] OTHER -> 3))

(***************************************************************************)
(* The subset tree (uboringssl) and the two upstream candidate trees.      *)
(* A tree maps a stem to its content; 0 is "no such file".                 *)
(***************************************************************************)
Absent == 0
Contents == 1..NumContents

\* hex-encoded SHA256 of a file content (collision free on Contents)
Sha256(c) == <<"sha256", c>>

ReadmeStem == "/README.fuchsia.md"
BaseH == "/include/openssl/base.h"

skipped_files == {ReadmeStem, "/rules.mk", "/stack-note.S"}

\* the content whose digest is the one recorded for base.h
BaselineContent == 2
edited_files == [s \in {BaseH} |-> Sha256(BaselineContent)]

\* stems whose content the trees hold (the README is held byte by byte)
TreeStems == {"/a.c", BaseH, "/rules.mk"}

\* filepath.Walk visits the root, then every entry in lexical order
WalkOrder == <<"", ReadmeStem, "/a.c", "/include", BaseH, "/rules.mk">>
Dirs == {"", "/include"}


Trees == [TreeStems -> {Absent} \cup Contents]

(***************************************************************************)
(* The README marker of the subset: "...<URL prefix><revision>/" + tail.   *)
(* The literal URL is shortened to UrlPrefix; the script never reads it.   *)
(***************************************************************************)
ReadmeBody == <<"R","e","v",":","\n">>
UrlPrefix == <<"u","r","l","/","+","/">>

MkReadme(prefix, old, tail) == ReadmeBody \o prefix \o old \o <<"/">> \o tail

\* revisions a README may carry before the roll: of the length git prints,
\* one byte shorter and one byte longer
OldRevs == {MkHex(3, RevLen), MkHex(3, RevLen - 1), MkHex(3, RevLen + 1)}

ReadmeTails == {<<>>, <<"\n">>, <<"\n", "\n">>}

WellFormedReadmes ==
    {MkReadme(UrlPrefix, old, tail) : old \in OldRevs, tail \in ReadmeTails}

\* a README whose URL prefix is not the expected one, and short files
MalformedReadmes ==
    {MkReadme(<<"u","r","l","/","-","/">>, MkHex(3, RevLen), <<"\n">>),
     MkHex(3, RevLen), MkHex(3, RevLen + 1), MkHex(3, RevLen + 4),
     <<"x", "\n">>}

GoodReadme == MkReadme(UrlPrefix, MkHex(3, RevLen), <<"\n">>)

(***************************************************************************)
(* State.                                                                  *)
(***************************************************************************)
VARIABLES
    script,        \* which script runs: "roll" or "certs"
    pc,            \* position in main (and in the function it is in)
    exit,          \* "running", "ok" (main returned) or "fatal" (log.Fatal)
    flags,         \* the command-line flags
    head,          \* HEAD of every repository
    remote,        \* the commit the -commit reference resolves to after fetch
    originFS,      \* the tree of that commit
    srcFS,         \* files under third_party/boringssl/src
    boringFS,      \* files under third_party/boringssl
    zirconFS,      \* files under the subset root
    readme,        \* the subset README: [exists, bytes]
    buildFiles,    \* the revision the generated build files were made from
    manifest,      \* revisions recorded in the two jiri manifests
    dirty,         \* repositories with uncommitted changes
    manual_files,  \* files needing manual intervention
    packages,      \* pending-action sets of main
    tests,
    commits,
    pending,       \* [todo, repo]: the range over commits and the repo being committed
    walkIdx,       \* position of filepath.Walk in WalkOrder
    log,           \* commands and file operations performed, in order
    reported,      \* lines printed by the final report or the manual-files warning
    bundle,        \* certdata.stamp, certdata.txt, certdata.pem (part_002)
    runNo,         \* which invocation of the script this is
    prev,          \* what the previous invocation left: [walk, manual, copied]
    zircon0,       \* the subset tree when this invocation started
    readme0        \* the README when this invocation started

vars == <<script, pc, exit, flags, head, remote, originFS, srcFS, boringFS, zirconFS,
          readme, buildFiles, manifest, dirty, manual_files, packages, tests,
          commits, pending, walkIdx, log, reported, bundle, runNo, prev,
          zircon0, readme0>>

Revs == {MkRev(k) : k \in 1..NumRevs}

FlagSet ==
    [fuchsia : {"/fuchsia"}, skipFuchsia : BOOLEAN, skipBoring : BOOLEAN,
     skipRust : BOOLEAN, skipZircon : BOOLEAN, skipGarnet : BOOLEAN,
     reset : BOOLEAN, submit : BOOLEAN, skipBundle : {FALSE}]

\* only the subset sync runs
OnlyZircon ==
    [fuchsia |-> "/fuchsia", skipFuchsia |-> TRUE, skipBoring |-> TRUE,
     skipRust |-> TRUE, skipZircon |-> FALSE, skipGarnet |-> TRUE,
     reset |-> FALSE, submit |-> FALSE, skipBundle |-> FALSE]

AllStages == [OnlyZircon EXCEPT !.skipFuchsia = FALSE, !.skipBoring = FALSE,
                                !.skipRust = FALSE, !.skipGarnet = FALSE]

Tree(a, b, r) == [s \in TreeStems |->
                    CASE s = "/a.c" -> a [] s = BaseH -> b [] OTHER -> r]

\* the subset as checked in: every file present
SubsetTree == Tree(1, 1, 1)
\* upstream src before the roll
OldSrcTree == Tree(1, BaselineContent, Absent)
\* upstream root: none of the subset files but a generated rules.mk
RootTree == Tree(Absent, Absent, Absent)
\* upstream src trees a roll may bring: an update, a conflict, a removal
NewSrcTrees == {Tree(2, BaselineContent, Absent), Tree(2, 1, Absent),
                Tree(Absent, BaselineContent, Absent), OldSrcTree}

InitCommon ==
    /\ script = (IF pc = "main" THEN "roll" ELSE "certs")
    /\ exit = "running"
    /\ head = [r \in Repos |-> IF r = Src THEN MkRev(1) ELSE MkRev(0)]
    /\ buildFiles = MkRev(1)
    /\ manifest = [project |-> MkRev(1), import |-> MkRev(0)]
    /\ manual_files = {}
    /\ packages = {}
    /\ tests = {}
    /\ commits = {}
    /\ pending = [todo |-> {}, repo |-> ""]
    /\ walkIdx = 1
    /\ log = <<>>
    /\ reported = {}
    /\ bundle = [stamp |-> "old", txt |-> "old", pem |-> "old"]
    /\ runNo = 1
    /\ prev = [walk |-> "none", manual |-> {}, copied |-> FALSE]
    /\ zircon0 = zirconFS
    /\ readme0 = readme

\* every combination of flags, over a few trees
InitFlags ==
    /\ pc = "main"
    /\ flags \in FlagSet \cup {[AllStages EXCEPT !.fuchsia = ""]}
    /\ remote \in Revs
    /\ originFS \in (IF remote = MkRev(1) THEN {OldSrcTree} ELSE NewSrcTrees)
    /\ srcFS = OldSrcTree
    /\ boringFS = RootTree
    /\ zirconFS = SubsetTree
    /\ readme = [exists |-> TRUE, bytes |-> GoodReadme]
    /\ dirty \in {{}, {Zircon}}
    /\ InitCommon

\* every subset and upstream tree, the subset sync alone
InitTrees ==
    /\ pc = "main"
    /\ flags = OnlyZircon
    /\ remote = MkRev(1)
    /\ srcFS \in Trees
    /\ originFS = srcFS
    /\ boringFS \in Trees
    /\ zirconFS = SubsetTree
    /\ readme = [exists |-> TRUE, bytes |-> GoodReadme]
    /\ dirty = {}
    /\ InitCommon

\* every upstream src tree and a few subsets, the subset sync and the commits
InitCommits ==
    /\ pc = "main"
    /\ flags = [OnlyZircon EXCEPT !.skipGarnet = FALSE]
    /\ remote = MkRev(1)
    /\ srcFS \in Trees
    /\ originFS = srcFS
    /\ boringFS = RootTree
    /\ zirconFS \in {SubsetTree, Tree(Absent, 1, 1), Tree(1, Absent, 1)}
    /\ readme = [exists |-> TRUE, bytes |-> GoodReadme]
    /\ dirty = {}
    /\ InitCommon

\* every README, the subset sync alone or after the source sync
InitReadme ==
    /\ pc = "main"
    /\ flags \in {OnlyZircon, [OnlyZircon EXCEPT !.skipBoring = FALSE]}
    /\ remote = (IF flags.skipBoring THEN MkRev(1) ELSE MkRev(2))
    /\ srcFS = OldSrcTree
    /\ originFS = srcFS
    /\ boringFS = RootTree
    /\ zirconFS = SubsetTree
    /\ readme \in {[exists |-> TRUE, bytes |-> b] :
                      b \in WellFormedReadmes \cup MalformedReadmes}
                  \cup {[exists |-> FALSE, bytes |-> <<>>]}
    /\ dirty = {}
    /\ InitCommon

\* the root-certificate variant of the script (part_002)
InitCerts ==
    /\ pc = "certs_main"
    /\ flags \in [fuchsia : {"", "/fuchsia"}, skipFuchsia : {FALSE},
                  skipBoring : BOOLEAN, skipRust : {FALSE},
                  skipZircon : {FALSE}, skipGarnet : {FALSE},
                  reset : {FALSE}, submit : {FALSE}, skipBundle : BOOLEAN]
    /\ remote \in Revs
    /\ originFS = OldSrcTree
    /\ srcFS = OldSrcTree
    /\ boringFS = RootTree
    /\ zirconFS = SubsetTree
    /\ readme = [exists |-> TRUE, bytes |-> GoodReadme]
    /\ dirty = {}
    /\ InitCommon

Init == InitFlags \/ InitTrees \/ InitCommits \/ InitReadme \/ InitCerts


(***************************************************************************)
(* Helpers shared by the actions.                                          *)
(***************************************************************************)
envVars == <<script, flags, remote, originFS, runNo, prev, zircon0, readme0, bundle>>
fsVars == <<srcFS, boringFS, zirconFS, readme>>
gitVars == <<head, buildFiles, manifest, dirty>>
setVars == <<manual_files, packages, tests, commits, reported>>
posVars == <<pending, walkIdx>>

Entry(cmd, arg, ok) == [cmd |-> cmd, arg |-> arg, ok |-> ok]

\* log.Fatal: the process exits with status 1
Fatal ==
    /\ pc' = "exit"
    /\ exit' = "fatal"

Goto(next) ==
    /\ pc' = next
    /\ exit' = exit

\* run(cwd, name, args...): log.Fatal when the command fails, else go on
run_continues(cmd, arg, ok, next) ==
    /\ log' = Append(log, Entry(cmd, arg, ok))
    /\ Goto(next)

run(cmd, arg, ok, next) ==
    /\ log' = Append(log, Entry(cmd, arg, ok))
    /\ IF ok THEN Goto(next) ELSE Fatal

Add_always(set, entries, ok) == set \cup entries

\* set[entry] = true once the call before it has returned
Add(set, entries, ok) == IF ok THEN set \cup entries ELSE set

\* where main goes after each stage, by the skip flags
AfterRust_always == "zircon_rev"

AfterRust == IF ~flags.skipZircon THEN "zircon_rev" ELSE "manual"
AfterBoring_zirconFirst == AfterRust
AfterBoring == IF ~flags.skipRust THEN "rust" ELSE AfterRust
AfterFuchsia == IF ~flags.skipBoring THEN "boring_fetch" ELSE AfterBoring
AfterFlags == IF ~flags.skipFuchsia THEN "fuchsia_status" ELSE AfterFuchsia

ResetOrder == <<Garnet, Zircon, Boring, Src>>

\* the repository after r in ResetOrder, "" after the last
NextRepo(r) ==
    LET i == CHOOSE j \in 1..Len(ResetOrder) : ResetOrder[j] = r
    IN IF i < Len(ResetOrder) THEN ResetOrder[i + 1] ELSE ""

\* JIRI_HEAD of a repository: the revision jiri last synchronized it to
JiriHead(r) == IF r = Src THEN MkRev(1) ELSE MkRev(0)

(***************************************************************************)
(* main of roll_boringssl.go: flags, reset, submit.                        *)
(***************************************************************************)
main_flags ==
    /\ pc = "main"
    /\ IF flags.fuchsia = ""
       THEN Fatal /\ UNCHANGED pending
       ELSE IF flags.reset
       THEN Goto("reset_hard") /\ pending' = [pending EXCEPT !.repo = ResetOrder[1]]
       ELSE IF flags.submit
       THEN Goto("submit") /\ pending' = [pending EXCEPT !.repo = ResetOrder[1]]
       ELSE Goto(AfterFlags) /\ UNCHANGED pending
    /\ UNCHANGED <<envVars, fsVars, gitVars, setVars, walkIdx, log>>

\* after the last resetRepo main returns
AfterReset_fallthrough == AfterFlags

AfterReset == "return"

resetRepo_reset ==
    /\ pc = "reset_hard"
    /\ \E ok \in BOOLEAN :
        /\ run("git reset", pending.repo, ok, "reset_checkout")
        /\ dirty' = IF ok THEN dirty \ {pending.repo} ELSE dirty
    /\ UNCHANGED <<envVars, fsVars, head, buildFiles, manifest, setVars, posVars>>

resetRepo_checkout ==
    /\ pc = "reset_checkout"
    /\ \E ok \in BOOLEAN :
        /\ run("git checkout JIRI_HEAD", pending.repo, ok,
               IF NextRepo(pending.repo) = "" THEN AfterReset ELSE "reset_hard")
        /\ head' = IF ok THEN [head EXCEPT ![pending.repo] = JiriHead(pending.repo)]
                   ELSE head
        /\ pending' = IF ok THEN [pending EXCEPT !.repo = NextRepo(pending.repo)]
                      ELSE pending
    /\ UNCHANGED <<envVars, fsVars, buildFiles, manifest, dirty, setVars, walkIdx>>

submitTopic ==
    /\ pc = "submit"
    /\ \E ok \in BOOLEAN :
        /\ run("git push", pending.repo, ok,
               IF NextRepo(pending.repo) = "" THEN "return" ELSE "submit")
        /\ pending' = IF ok THEN [pending EXCEPT !.repo = NextRepo(pending.repo)]
                      ELSE pending
    /\ UNCHANGED <<envVars, fsVars, gitVars, setVars, walkIdx>>

(***************************************************************************)
(* updateFuchsia, updateBoring, updateRust.                                *)
(***************************************************************************)
\* what jiri status prints: nothing when every project is clean
jiriStatus == IF dirty = {} THEN "" ELSE "dirty projects"

StatusReported_never(out) == FALSE

\* len(out) != 0
StatusReported(out) == out # ""

updateFuchsia_status ==
    /\ pc = "fuchsia_status"
    /\ \E ok \in BOOLEAN :
        IF ok /\ StatusReported(jiriStatus)
        THEN log' = Append(log, Entry("jiri status", jiriStatus, ok)) /\ Fatal
        ELSE run("jiri status", jiriStatus, ok, "fuchsia_update")
    /\ UNCHANGED <<envVars, fsVars, gitVars, setVars, posVars>>

updateFuchsia_update ==
    /\ pc = "fuchsia_update"
    /\ \E ok \in BOOLEAN : run("jiri update", "", ok, AfterFuchsia)
    /\ UNCHANGED <<envVars, fsVars, gitVars, setVars, posVars>>

updateBoring_fetch ==
    /\ pc = "boring_fetch"
    /\ \E ok \in BOOLEAN : run("git fetch", Src, ok, "boring_checkout")
    /\ UNCHANGED <<envVars, fsVars, gitVars, setVars, posVars>>

updateBoring_checkout ==
    /\ pc = "boring_checkout"
    /\ \E ok \in BOOLEAN :
        /\ run("git checkout", Src, ok, "boring_generate")
        /\ head' = IF ok THEN [head EXCEPT ![Src] = remote] ELSE head
        /\ srcFS' = IF ok THEN originFS ELSE srcFS
    /\ UNCHANGED <<envVars, boringFS, zirconFS, readme, buildFiles, manifest,
                   dirty, setVars, posVars>>

updateBoring_generate ==
    /\ pc = "boring_generate"
    /\ \E ok \in BOOLEAN :
        /\ run("generate_build_files", Boring, ok, "boring_rev")
        /\ buildFiles' = IF ok THEN head[Src] ELSE buildFiles
        /\ dirty' = IF ok /\ buildFiles # head[Src] THEN dirty \cup {Boring}
                    ELSE dirty
    /\ UNCHANGED <<envVars, fsVars, head, manifest, setVars, posVars>>

\* the revision updateManifest hands to jiri edit
ManifestRev_commitish(repo) == commit

ManifestRev(repo) == TrimSpace(gitRevList(head[repo]))

updateBoring_rev ==
    /\ pc = "boring_rev"
    /\ \E ok \in BOOLEAN : run("git rev-list", Src, ok, "boring_edit")
    /\ UNCHANGED <<envVars, fsVars, gitVars, setVars, posVars>>

updateBoring_edit ==
    /\ pc = "boring_edit"
    /\ \E ok \in BOOLEAN :
        /\ run("jiri edit", "project", ok, AfterBoring)
        /\ manifest' = IF ok THEN [manifest EXCEPT !.project = ManifestRev(Src)]
                       ELSE manifest
        /\ dirty' = IF ok /\ manifest.project # ManifestRev(Src)
                    THEN dirty \cup {Boring} ELSE dirty
        /\ packages' = Add(packages, {"garnet/packages/boringssl"}, ok)
        /\ tests' = Add(tests, {"/system/test/disabled/crypto_test",
                                "/system/test/ssl_test"}, ok)
        /\ commits' = Add(commits, {Boring}, ok)
    /\ UNCHANGED <<envVars, fsVars, head, buildFiles, manual_files, reported,
                   posVars>>

updateRust ==
    /\ pc = "rust"
    /\ \E ok \in BOOLEAN : run("bindgen.sh", "", ok, AfterRust)
    /\ UNCHANGED <<envVars, fsVars, gitVars, setVars, posVars>>


(***************************************************************************)
(* updateZircon: the README stamp.                                         *)
(***************************************************************************)
StampOffset_noSlash(size, hashlen) ==
    IF hashlen < size THEN size - hashlen ELSE 0

\* the offset WriteAt is given, from the file size and len(rev)
StampOffset(size, hashlen) ==
    IF hashlen < size THEN size - (hashlen + 1) ELSE 0

StampBytes_newline(rev) == rev

\* rev[hashlen-1] = '/': the newline git printed becomes the slash
StampBytes(rev) == [rev EXCEPT ![Len(rev)] = "/"]

\* os.File.WriteAt: b replaces the bytes from off on, the file grows if needed
WriteAt(f, b, off) ==
    [i \in 1..Max(Len(f), off + Len(b)) |->
        IF off < i /\ i <= off + Len(b) THEN b[i - off] ELSE f[i]]

\* the README after the stamp with the output of git rev-list
StampReadme(bytes, rev) ==
    WriteAt(bytes, StampBytes(rev), StampOffset(Len(bytes), Len(rev)))

updateZircon_rev ==
    /\ pc = "zircon_rev"
    /\ \E ok \in BOOLEAN : run("git rev-list", Src, ok, "zircon_readme")
    /\ UNCHANGED <<envVars, fsVars, gitVars, setVars, posVars>>

updateZircon_readme ==
    /\ pc = "zircon_readme"
    /\ IF ~readme.exists
       THEN /\ log' = Append(log, Entry("stat", ReadmeStem, FALSE))
            /\ Fatal
            /\ UNCHANGED <<readme, dirty>>
       ELSE \E ok \in BOOLEAN :
            /\ log' = Append(log, Entry("WriteAt", ReadmeStem, ok))
            /\ IF ok THEN Goto("walk") ELSE Fatal
            /\ readme' = IF ok
                         THEN [readme EXCEPT !.bytes =
                                 StampReadme(readme.bytes, gitRevList(head[Src]))]
                         ELSE readme
            /\ dirty' = IF ok /\ readme'.bytes # readme.bytes
                        THEN dirty \cup {Zircon} ELSE dirty
    /\ UNCHANGED <<envVars, srcFS, boringFS, zirconFS, head, buildFiles,
                   manifest, setVars, posVars>>

(***************************************************************************)
(* updateZircon: the walk over the subset tree.                            *)
(***************************************************************************)
\* what filepath.Walk visits: the directories and the files that exist
WalkList ==
    SelectSeq(WalkOrder,
              LAMBDA s : s \in Dirs \/ s = ReadmeStem \/ zirconFS[s] # Absent)

\* the upstream counterpart: under boringssl, else under boringssl/src
boringPath_srcFirst(stem) ==
    IF srcFS[stem] # Absent THEN srcFS[stem] ELSE boringFS[stem]

boringPath(stem) ==
    IF boringFS[stem] # Absent THEN boringFS[stem] ELSE srcFS[stem]

IsSkipped_none(stem) == stem = ReadmeStem

IsSkipped(stem) == stem \in skipped_files

IsEdited_none(stem) == FALSE

IsEdited(stem) == stem \in DOMAIN edited_files

\* the comparison that decides a copy
Changed_always(boringHash, zirconHash) == TRUE

Changed_never(boringHash, zirconHash) == FALSE

Changed(boringHash, zirconHash) == boringHash # zirconHash

Conflict_always(boringHash, zirconHash) == TRUE

\* the comparison with the digest recorded in edited_files
Conflict(boringHash, zirconHash) == boringHash # zirconHash

Copy_nothing(tree, stem, content) == tree

\* cp boringPath zirconPath
Copy(tree, stem, content) == [tree EXCEPT ![stem] = content]

WalkStep == walkIdx' = walkIdx + 1

walker ==
    /\ pc = "walk"
    /\ walkIdx <= Len(WalkList)
    /\ LET stem == WalkList[walkIdx] IN
       \/ \* the walk hands the walker an error
          /\ log' = Append(log, Entry("walk", stem, FALSE))
          /\ Fatal
          /\ UNCHANGED <<zirconFS, dirty, manual_files, walkIdx>>
       \/ /\ stem \in Dirs \/ IsSkipped(stem)
          /\ Goto("walk") /\ WalkStep
          /\ UNCHANGED <<zirconFS, dirty, manual_files, log>>
       \/ /\ stem \notin Dirs /\ ~IsSkipped(stem)
          /\ boringPath(stem) = Absent
          \* flagged, then sha256sum cannot open the missing file
          /\ manual_files' = manual_files \cup {stem}
          /\ log' = Append(log, Entry("open", stem, FALSE))
          /\ Fatal
          /\ UNCHANGED <<zirconFS, dirty, walkIdx>>
       \/ /\ stem \notin Dirs /\ ~IsSkipped(stem)
          /\ boringPath(stem) # Absent
          /\ IsEdited(stem)
          /\ manual_files' =
                IF Conflict(Sha256(boringPath(stem)), edited_files[stem])
                THEN manual_files \cup {stem} ELSE manual_files
          /\ Goto("walk") /\ WalkStep
          /\ UNCHANGED <<zirconFS, dirty, log>>
       \/ /\ stem \notin Dirs /\ ~IsSkipped(stem)
          /\ boringPath(stem) # Absent
          /\ ~IsEdited(stem)
          /\ IF Changed(Sha256(boringPath(stem)), Sha256(zirconFS[stem]))
             THEN \E ok \in BOOLEAN :
                  /\ run("cp", stem, ok, "walk")
                  /\ zirconFS' = IF ok
                                 THEN Copy(zirconFS, stem, boringPath(stem))
                                 ELSE zirconFS
                  /\ dirty' = IF ok THEN dirty \cup {Zircon} ELSE dirty
                  /\ walkIdx' = IF ok THEN walkIdx + 1 ELSE walkIdx
             ELSE /\ Goto("walk") /\ WalkStep
                  /\ UNCHANGED <<zirconFS, dirty, log>>
          /\ UNCHANGED manual_files
    /\ UNCHANGED <<envVars, srcFS, boringFS, readme, head, buildFiles, manifest,
                   packages, tests, commits, reported, pending>>

\* filepath.Walk returns nil; main records the test and the commit
updateZircon_return ==
    /\ pc = "walk"
    /\ walkIdx > Len(WalkList)
    /\ Goto("manual")
    /\ tests' = Add(tests, {"/boot/test/sys/crypto_test"}, TRUE)
    /\ commits' = Add(commits, {Zircon}, TRUE)
    /\ UNCHANGED <<envVars, fsVars, gitVars, manual_files, packages, reported,
                   posVars, log>>


(***************************************************************************)
(* main: the manual-files stop, the commits and the Garnet manifest.       *)
(***************************************************************************)
NeedsManual_never(files) == FALSE

\* len(manual_files) != 0
NeedsManual(files) == files # {}

main_manual ==
    /\ pc = "manual"
    /\ IF NeedsManual(manual_files)
       THEN /\ reported' = reported \cup manual_files
            /\ Fatal
            /\ UNCHANGED pending
       ELSE /\ Goto(IF ~flags.skipGarnet THEN "range" ELSE "report")
            /\ pending' = IF ~flags.skipGarnet
                          THEN [pending EXCEPT !.todo = commits] ELSE pending
            /\ UNCHANGED reported
    /\ UNCHANGED <<envVars, fsVars, gitVars, manual_files, packages, tests,
                   commits, walkIdx, log>>

\* for commit := range commits: any order
main_range ==
    /\ pc = "range"
    /\ IF pending.todo = {}
       THEN Goto("garnet_rev") /\ UNCHANGED pending
       ELSE \E c \in pending.todo :
            /\ Goto("commit_rev")
            /\ pending' = [todo |-> pending.todo \ {c}, repo |-> c]
    /\ UNCHANGED <<envVars, fsVars, gitVars, setVars, walkIdx, log>>

\* where main goes when commitChanges(repo) returns
AfterCommit(repo) == IF repo = Garnet THEN "report" ELSE "range"

commitChanges_rev ==
    /\ pc = "commit_rev"
    /\ \E ok \in BOOLEAN : run("git rev-list", Src, ok, "commit_status")
    /\ UNCHANGED <<envVars, fsVars, gitVars, setVars, posVars>>

NothingToCommit_never(repo) == FALSE

\* len(out) == 0 for the output of git status --short
NothingToCommit(repo) == repo \notin dirty

commitChanges_status ==
    /\ pc = "commit_status"
    /\ \E ok \in BOOLEAN :
        /\ run("git status", pending.repo, ok,
               IF ~NothingToCommit(pending.repo) THEN "commit_add"
               ELSE AfterCommit(pending.repo))
        /\ commits' = IF NothingToCommit(pending.repo) /\ pending.repo = Garnet
                      THEN Add(commits, {Garnet}, ok) ELSE commits
    /\ UNCHANGED <<envVars, fsVars, gitVars, manual_files, packages, tests,
                   reported, posVars>>

commitChanges_add ==
    /\ pc = "commit_add"
    /\ \E ok \in BOOLEAN : run("git add", pending.repo, ok, "commit_commit")
    /\ UNCHANGED <<envVars, fsVars, gitVars, setVars, posVars>>

commitChanges_commit ==
    /\ pc = "commit_commit"
    /\ \E ok \in BOOLEAN :
        /\ run("git commit", pending.repo, ok, AfterCommit(pending.repo))
        /\ head' = IF ok
                   THEN [head EXCEPT ![pending.repo] = CommitRev(pending.repo, runNo)]
                   ELSE head
        /\ dirty' = IF ok THEN dirty \ {pending.repo} ELSE dirty
        /\ commits' = IF pending.repo = Garnet
                      THEN Add(commits, {Garnet}, ok) ELSE commits
    /\ UNCHANGED <<envVars, fsVars, buildFiles, manifest, manual_files,
                   packages, tests, reported, posVars>>

updateGarnet_rev ==
    /\ pc = "garnet_rev"
    /\ \E ok \in BOOLEAN : run("git rev-list", Boring, ok, "garnet_edit")
    /\ UNCHANGED <<envVars, fsVars, gitVars, setVars, posVars>>

updateGarnet_edit ==
    /\ pc = "garnet_edit"
    /\ \E ok \in BOOLEAN :
        /\ run("jiri edit", "import", ok, "commit_rev")
        /\ manifest' = IF ok THEN [manifest EXCEPT !.import = ManifestRev(Boring)]
                       ELSE manifest
        /\ dirty' = IF ok /\ manifest.import # ManifestRev(Boring)
                    THEN dirty \cup {Garnet} ELSE dirty
        /\ pending' = IF ok THEN [pending EXCEPT !.repo = Garnet] ELSE pending
    /\ UNCHANGED <<envVars, fsVars, head, buildFiles, setVars, walkIdx>>

\* the closing report: packages, tests and commits
main_report ==
    /\ pc = "report"
    /\ log' = Append(log, Entry("report", "", TRUE))
    /\ reported' = reported \cup packages \cup tests \cup commits
    /\ Goto("return")
    /\ UNCHANGED <<envVars, fsVars, gitVars, manual_files, packages, tests,
                   commits, posVars>>

\* main returns: exit status 0
main_return ==
    /\ pc = "return"
    /\ pc' = "exit"
    /\ exit' = "ok"
    /\ UNCHANGED <<envVars, fsVars, gitVars, setVars, posVars, log>>


(***************************************************************************)
(* The root-certificate variant (part_002): errors are returned to main,   *)
(* which calls log.Fatal on the first one.                                 *)
(***************************************************************************)
certs_run_continues(cmd, arg, ok, next) ==
    /\ log' = Append(log, Entry(cmd, arg, ok))
    /\ Goto(next)

certs_run(cmd, arg, ok, next) ==
    /\ log' = Append(log, Entry(cmd, arg, ok))
    /\ IF ok THEN Goto(next) ELSE Fatal

CertsAfterBoring == IF flags.skipBundle THEN "return" ELSE "certs_get"

certs_main ==
    /\ pc = "certs_main"
    /\ IF flags.fuchsia = ""
       THEN Fatal
       ELSE Goto(IF flags.skipBoring THEN CertsAfterBoring ELSE "certs_fetch")
    /\ UNCHANGED <<envVars, fsVars, gitVars, setVars, posVars, log>>

checkoutUpstream_fetch ==
    /\ pc = "certs_fetch"
    /\ \E ok \in BOOLEAN : certs_run("git fetch", Src, ok, "certs_checkout")
    /\ UNCHANGED <<envVars, fsVars, gitVars, setVars, posVars>>

checkoutUpstream_checkout ==
    /\ pc = "certs_checkout"
    /\ \E ok \in BOOLEAN :
        /\ certs_run("git checkout", Src, ok, "certs_rev")
        /\ head' = IF ok THEN [head EXCEPT ![Src] = remote] ELSE head
        /\ srcFS' = IF ok THEN originFS ELSE srcFS
    /\ UNCHANGED <<envVars, boringFS, zirconFS, readme, buildFiles, manifest,
                   dirty, setVars, posVars>>

certs_getGitRevision ==
    /\ pc = "certs_rev"
    /\ \E ok \in BOOLEAN : certs_run("git rev-list", Src, ok, "certs_edit")
    /\ UNCHANGED <<envVars, fsVars, gitVars, setVars, posVars>>

certs_updateManifest ==
    /\ pc = "certs_edit"
    /\ \E ok \in BOOLEAN :
        /\ certs_run("jiri edit", "project", ok, "certs_generate")
        /\ manifest' = IF ok
                       THEN [manifest EXCEPT
                               !.project = TrimSpace(gitRevList(head[Src]))]
                       ELSE manifest
        /\ dirty' = IF ok /\ manifest.project # TrimSpace(gitRevList(head[Src]))
                    THEN dirty \cup {Boring} ELSE dirty
    /\ UNCHANGED <<envVars, fsVars, head, buildFiles, setVars, posVars>>

generateBuildFiles ==
    /\ pc = "certs_generate"
    /\ \E ok \in BOOLEAN :
        /\ certs_run("generate_build_files", Boring, ok, CertsAfterBoring)
        /\ buildFiles' = IF ok THEN head[Src] ELSE buildFiles
        /\ dirty' = IF ok /\ buildFiles # head[Src] THEN dirty \cup {Boring}
                    ELSE dirty
    /\ UNCHANGED <<envVars, fsVars, head, manifest, setVars, posVars>>

\* a file written by os.Create + write or by ioutil.WriteFile: unchanged when
\* it cannot be opened, truncated when the write fails, else the new content
FileOutcomes == {"open fails", "write fails", "ok"}

Written(old, outcome) ==
    CASE outcome = "open fails" -> old
      [] outcome = "write fails" -> "truncated"
      [] OTHER -> "new"

getCertData ==
    /\ pc = "certs_get"
    /\ \E ok \in BOOLEAN :
        /\ log' = Append(log, Entry("http get", "certdata", ok))
        /\ IF ok THEN Goto("certs_stamp") ELSE Fatal
    /\ UNCHANGED <<envVars, fsVars, gitVars, setVars, posVars>>

stampCertData ==
    /\ pc = "certs_stamp"
    /\ \E o \in FileOutcomes :
        /\ log' = Append(log, Entry("write", "certdata.stamp", o = "ok"))
        /\ bundle' = [bundle EXCEPT !.stamp = Written(bundle.stamp, o)]
        /\ IF o = "ok" THEN Goto("certs_txt") ELSE Fatal
    /\ UNCHANGED <<script, flags, remote, originFS, runNo, prev, zircon0,
                   readme0, fsVars, gitVars, setVars, posVars>>

convertToPEM_txt ==
    /\ pc = "certs_txt"
    /\ \E o \in FileOutcomes :
        /\ log' = Append(log, Entry("write", "certdata.txt", o = "ok"))
        /\ bundle' = [bundle EXCEPT !.txt = Written(bundle.txt, o)]
        /\ IF o = "ok" THEN Goto("certs_convert") ELSE Fatal
    /\ UNCHANGED <<script, flags, remote, originFS, runNo, prev, zircon0,
                   readme0, fsVars, gitVars, setVars, posVars>>

convertToPEM_run ==
    /\ pc = "certs_convert"
    /\ \E ok \in BOOLEAN :
        certs_run("go run convert_mozilla_certdata.go", Boring, ok, "certs_pem")
    /\ UNCHANGED <<envVars, fsVars, gitVars, setVars, posVars>>

convertToPEM_pem ==
    /\ pc = "certs_pem"
    /\ \E o \in FileOutcomes :
        /\ log' = Append(log, Entry("write", "certdata.pem", o = "ok"))
        /\ bundle' = [bundle EXCEPT !.pem = Written(bundle.pem, o)]
        /\ IF o = "ok" THEN Goto("return") ELSE Fatal
    /\ UNCHANGED <<script, flags, remote, originFS, runNo, prev, zircon0,
                   readme0, fsVars, gitVars, setVars, posVars>>

(***************************************************************************)
(* The script is invoked again on what the previous invocation left.       *)
(***************************************************************************)
\* how the walk of the invocation that just ended went
WalkOutcome ==
    IF log # <<>> /\ log[Len(log)].cmd = "open" THEN "missing"
    ELSE IF pc = "exit" /\ walkIdx > Len(WalkList) THEN "returned"
    ELSE IF \E i \in 1..Len(log) : log[i].cmd = "WriteAt" /\ log[i].ok
    THEN "failed"
    ELSE "none"

Rerun ==
    /\ pc = "exit"
    /\ runNo < MaxRuns
    /\ \E i \in 1..Len(log) : log[i].cmd \in {"git rev-list", "stat"}
    /\ runNo' = runNo + 1
    /\ prev' = [walk |-> WalkOutcome, manual |-> manual_files,
                 copied |-> \E i \in 1..Len(log) : log[i].cmd = "cp" /\ log[i].ok]
    /\ pc' = "main"
    /\ exit' = "running"
    /\ manual_files' = {}
    /\ packages' = {}
    /\ tests' = {}
    /\ commits' = {}
    /\ reported' = {}
    /\ pending' = [todo |-> {}, repo |-> ""]
    /\ walkIdx' = 1
    /\ log' = <<>>
    /\ zircon0' = zirconFS
    /\ readme0' = readme
    /\ UNCHANGED <<script, flags, remote, originFS, bundle, fsVars, gitVars>>

(***************************************************************************)
(* Specifications.                                                         *)
(***************************************************************************)
Next ==
    \/ main_flags
    \/ resetRepo_reset
    \/ resetRepo_checkout
    \/ submitTopic
    \/ updateFuchsia_status
    \/ updateFuchsia_update
    \/ updateBoring_fetch
    \/ updateBoring_checkout
    \/ updateBoring_generate
    \/ updateBoring_rev
    \/ updateBoring_edit
    \/ updateRust
    \/ updateZircon_rev
    \/ updateZircon_readme
    \/ walker
    \/ updateZircon_return
    \/ main_manual
    \/ main_range
    \/ commitChanges_rev
    \/ commitChanges_status
    \/ commitChanges_add
    \/ commitChanges_commit
    \/ updateGarnet_rev
    \/ updateGarnet_edit
    \/ main_report
    \/ main_return
    \/ certs_main
    \/ checkoutUpstream_fetch
    \/ checkoutUpstream_checkout
    \/ certs_getGitRevision
    \/ certs_updateManifest
    \/ generateBuildFiles
    \/ getCertData
    \/ stampCertData
    \/ convertToPEM_txt
    \/ convertToPEM_run
    \/ convertToPEM_pem

Spec == Init /\ [][Next]_vars

\* the subset sync (every other stage skipped by its flag) invoked up to
\* MaxRuns times in a row on the same upstream trees
InitTwice ==
    /\ InitTrees
    /\ flags = OnlyZircon
    /\ zirconFS = SubsetTree

NextTwice ==
    \/ main_flags
    \/ updateZircon_rev
    \/ updateZircon_readme
    \/ walker
    \/ updateZircon_return
    \/ main_manual
    \/ main_report
    \/ main_return
    \/ Rerun

Twice == InitTwice /\ [][NextTwice]_vars


(***************************************************************************)
(* Properties.                                                             *)
(***************************************************************************)
Ran(cmds) == \E i \in 1..Len(log) : log[i].cmd \in cmds
Did(cmd) == \E i \in 1..Len(log) : log[i].cmd = cmd /\ log[i].ok
RanWith(cmd, arg) == \E i \in 1..Len(log) : log[i].cmd = cmd /\ log[i].arg = arg

CommitCmds == {"git status", "git add", "git commit"}

\* the walk has visited every entry of the subset tree
WalkDone == walkIdx > Len(WalkList)
\* the walk was cut short by the digest of a file that is not there
WalkAborted == log # <<>> /\ log[Len(log)].cmd = "open"

\* files of the subset tree when this invocation started
SubsetFiles == {s \in TreeStems : zircon0[s] # Absent}

\* C1 as claimed: a run that ends with a non-empty Manual-Intervention Set
\* has performed no manifest edit (project or Garnet) and no commit.
C1_Claimed ==
    (pc = "exit" /\ manual_files # {}) => ~Ran(CommitCmds \cup {"jiri edit"})

\* C1 amended: while the Manual-Intervention Set is non-empty no commit and
\* no Garnet manifest edit has been performed; the project manifest edit of
\* updateBoring precedes the subset sync and may have happened.
C1_NoCommitNoGarnetEdit ==
    manual_files # {} => ~Ran(CommitCmds) /\ ~RanWith("jiri edit", "import")

C1_Witness ==
    /\ pc = "exit" /\ exit = "fatal"
    /\ manual_files # {} /\ reported = manual_files
    /\ RanWith("jiri edit", "project")
    /\ ~flags.skipGarnet

\* C2: a failed command is the last thing the run does: the run has ended
\* with a failure status and nothing, the same command included, follows it.
C2_FailureIsFinal ==
    \A i \in 1..Len(log) :
        ~log[i].ok => i = Len(log) /\ pc = "exit" /\ exit = "fatal"

C2_Witness ==
    /\ exit = "fatal" /\ log # <<>>
    /\ log[Len(log)] = Entry("cp", "/a.c", FALSE)
    /\ Did("jiri edit")

\* C3 as claimed: when a file without upstream counterpart was flagged, the
\* run ends only after the walk has visited every file of the subset.
C3_Claimed ==
    (pc = "exit" /\ \E s \in manual_files : boringPath(s) = Absent) => WalkDone

\* C4 as claimed: after reconciliation every subset file whose digest
\* differed from its upstream counterpart's has the counterpart's digest.
C4_Claimed ==
    WalkDone =>
        \A f \in SubsetFiles :
            (boringPath(f) # Absent /\ Sha256(boringPath(f)) # Sha256(zircon0[f]))
            => Sha256(zirconFS[f]) = Sha256(boringPath(f))

\* C4 amended: the same for every subset file that is neither on the
\* skip-list nor baseline-tracked; those two kinds are never copied.
C4_UpdatedUnlessSkippedOrEdited ==
    WalkDone =>
        \A f \in SubsetFiles :
            (/\ ~IsSkipped(f) /\ f \notin DOMAIN edited_files
             /\ boringPath(f) # Absent
             /\ Sha256(boringPath(f)) # Sha256(zircon0[f]))
            => Sha256(zirconFS[f]) = Sha256(boringPath(f))

C4_Witness ==
    /\ WalkDone
    /\ zircon0["/a.c"] # Absent /\ zircon0["/a.c"] # boringPath("/a.c")
    /\ zirconFS["/a.c"] = boringPath("/a.c")
    /\ Did("cp")

\* C5: a subset file off the skip-list whose digest equals its upstream
\* counterpart's is not copied over and keeps its content.
C5_NoWriteWhenEqual ==
    \A f \in SubsetFiles :
        (/\ f \notin skipped_files
         /\ boringPath(f) # Absent
         /\ Sha256(boringPath(f)) = Sha256(zircon0[f]))
        => ~RanWith("cp", f) /\ zirconFS[f] = zircon0[f]

C5_Witness ==
    /\ WalkDone /\ pc = "exit"
    /\ zircon0["/a.c"] # Absent /\ zircon0["/a.c"] = boringPath("/a.c")
    /\ ~Ran({"cp"})

\* C6 as claimed: after reconciliation the Manual-Intervention Set is empty
\* iff every subset file has an upstream counterpart and every
\* baseline-tracked file's counterpart has the recorded digest.
C6_Claimed ==
    (WalkDone \/ WalkAborted) =>
        (manual_files = {} <=>
            /\ \A f \in SubsetFiles : boringPath(f) # Absent
            /\ \A f \in SubsetFiles \cap DOMAIN edited_files :
                   Sha256(boringPath(f)) = edited_files[f])

\* C6 amended: the same with "every subset file that is not on the skip-list"
C6_EmptyIffResolved ==
    (WalkDone \/ WalkAborted) =>
        (manual_files = {} <=>
            /\ \A f \in SubsetFiles \ skipped_files : boringPath(f) # Absent
            /\ \A f \in SubsetFiles \cap DOMAIN edited_files :
                   boringPath(f) # Absent
                   => Sha256(boringPath(f)) = edited_files[f])

C6_Witness ==
    /\ WalkDone
    /\ manual_files = {BaseH}
    /\ boringPath("/rules.mk") = Absent

C6_WitnessEmpty ==
    /\ WalkDone
    /\ manual_files = {}
    /\ boringPath("/rules.mk") = Absent /\ Did("cp")


\* C7: a second reconciliation over the same upstream trees copies nothing
\* and ends with the same Manual-Intervention Set as the first.
C7_SecondRunCopiesNothing ==
    (runNo >= 2 /\ prev.walk \in {"returned", "missing"}) =>
        /\ ~Ran({"cp"})
        /\ manual_files \subseteq prev.manual
        /\ (WalkDone \/ WalkAborted) => manual_files = prev.manual

C7_Witness ==
    /\ runNo = 2 /\ prev.walk = "returned" /\ prev.copied
    /\ prev.manual # {}
    /\ WalkDone /\ pc = "exit"

\* the revision the stamp writes: HEAD of the vendored source tree
NewRevision == TrimSpace(gitRevList(head[Src]))

\* C8 as claimed: a README that ends in <prefix><old>/ (with or without the
\* end of line) ends in <prefix><new>/ after the stamp and is the same
\* elsewhere, whatever the lengths of old and new.
C8_Claimed ==
    Did("WriteAt") =>
        \A old \in OldRevs : \A tail \in {<<>>, <<"\n">>} :
            readme0.bytes = MkReadme(UrlPrefix, old, tail)
            => readme.bytes = MkReadme(UrlPrefix, NewRevision, tail)

\* C8 amended: the same for a README whose marker is followed by exactly
\* one byte (the end of line) and whose old revision is as long as the new.
C8_StampSameLength ==
    Did("WriteAt") =>
        \A old \in OldRevs :
            (/\ Len(old) = Len(NewRevision)
             /\ readme0.bytes = MkReadme(UrlPrefix, old, <<"\n">>))
            => readme.bytes = MkReadme(UrlPrefix, NewRevision, <<"\n">>)

C8_Witness ==
    /\ Did("WriteAt")
    /\ readme0.bytes = GoodReadme
    /\ readme.bytes # readme0.bytes
    /\ readme.bytes = MkReadme(UrlPrefix, head[Src], <<"\n">>)

\* the expected URL prefix occupies the bytes of the file from offset off on
PrefixAt(bytes, off) ==
    /\ off >= 0
    /\ off + Len(UrlPrefix) <= Len(bytes)
    /\ SubSeq(bytes, off + 1, off + Len(UrlPrefix)) = UrlPrefix

\* the prefix is where the stamp expects it: right before the bytes it
\* writes, or at the end of the file less the prefix, the revision and "/"
PrefixAtOffset(bytes, rev) ==
    \/ PrefixAt(bytes, StampOffset(Len(bytes), Len(rev)) - Len(UrlPrefix))
    \/ PrefixAt(bytes, Len(bytes) - (Len(UrlPrefix) + Len(TrimSpace(rev)) + 1))

\* C9 as claimed: a README without the expected URL prefix at the computed
\* offset is left as it was and the run fails with a format error.
C9_Claimed ==
    (/\ Ran({"WriteAt"})
     /\ ~PrefixAtOffset(readme0.bytes, gitRevList(head[Src])))
    => readme.bytes = readme0.bytes /\ exit = "fatal"

(***************************************************************************)
(* C10: the order of the stages.                                           *)
(***************************************************************************)
\* the stage a logged operation belongs to ("" for reads and for reset/submit)
StageOf(e) ==
    CASE e.cmd \in {"git fetch", "git checkout"} -> "SourceSync"
      [] e.cmd = "generate_build_files" -> "BuildFileGen"
      [] e.cmd = "jiri edit" /\ e.arg = "project" -> "ProjectManifest"
      [] e.cmd = "bindgen.sh" -> "BindingGen"
      [] e.cmd \in {"stat", "WriteAt"} -> "StampUpdate"
      [] e.cmd \in {"walk", "open", "cp"} -> "SubsetSync"
      [] e.cmd \in CommitCmds -> "Propagate"
      [] e.cmd = "jiri edit" /\ e.arg = "import" -> "Propagate"
      [] e.cmd = "report" -> "Report"
      [] e.cmd \in {"http get", "write", "go run convert_mozilla_certdata.go"}
         -> "Bundle"
      [] OTHER -> ""

Position(seq, name) ==
    IF \E i \in 1..Len(seq) : seq[i] = name
    THEN CHOOSE i \in 1..Len(seq) : seq[i] = name
    ELSE 0

ClaimedStages == <<"SourceSync", "StampUpdate", "BuildFileGen", "SubsetSync",
                   "BindingGen", "ManifestUpdate", "Report">>

ClaimedRank(e) ==
    Position(ClaimedStages,
             IF StageOf(e) \in {"ProjectManifest", "Propagate"}
             THEN "ManifestUpdate" ELSE StageOf(e))

RollStages == <<"SourceSync", "BuildFileGen", "ProjectManifest", "BindingGen",
                "StampUpdate", "SubsetSync", "Propagate", "Report">>

CertsStages == <<"SourceSync", "ProjectManifest", "BuildFileGen", "Bundle">>

Stages == IF script = "roll" THEN RollStages ELSE CertsStages

Rank(e) == Position(Stages, StageOf(e))

StageSkipped(stage) ==
    CASE stage \in {"SourceSync", "BuildFileGen", "ProjectManifest"}
         -> flags.skipBoring
      [] stage = "BindingGen" -> flags.skipRust
      [] stage \in {"StampUpdate", "SubsetSync"} -> flags.skipZircon
      [] stage = "Propagate" -> flags.skipGarnet
      [] stage = "Bundle" -> flags.skipBundle
      [] OTHER -> FALSE

StageCompleted(stage) ==
    CASE stage = "SourceSync" -> Did("git checkout")
      [] stage = "BuildFileGen" -> Did("generate_build_files")
      [] stage = "ProjectManifest" -> Did("jiri edit")
      [] stage = "BindingGen" -> Did("bindgen.sh")
      [] stage = "StampUpdate" -> Did("WriteAt")
      [] stage = "SubsetSync" -> WalkDone
      [] stage = "Propagate" -> Garnet \in commits
      [] OTHER -> TRUE

InOrder(rank(_)) ==
    \A i, j \in 1..Len(log) :
        (i < j /\ rank(log[i]) > 0 /\ rank(log[j]) > 0)
        => rank(log[i]) <= rank(log[j])

\* C10 as claimed: the operations of a run follow the order SourceSync,
\* StampUpdate, BuildFileGen, RestrictedSubsetSync, BindingGen,
\* ManifestUpdate, Report.
C10_Claimed == InOrder(ClaimedRank)

\* C10 amended: they follow the order SourceSync, BuildFileGen, project
\* ManifestUpdate, BindingGen, StampUpdate, RestrictedSubsetSync, commits and
\* Garnet ManifestUpdate, Report (in the root-certificate variant:
\* SourceSync, ManifestUpdate, BuildFileGen, bundle), and a stage starts
\* only when every earlier stage that is not skipped has completed.
C10_StagesInCodeOrder ==
    /\ InOrder(Rank)
    /\ \A i \in 1..Len(log) : \A k \in 1..Len(Stages) :
           (k < Rank(log[i]) /\ ~StageSkipped(Stages[k]))
           => StageCompleted(Stages[k])

C10_Witness ==
    /\ script = "roll" /\ pc = "exit" /\ exit = "ok"
    /\ Did("report") /\ Did("git commit") /\ Did("cp") /\ Did("bindgen.sh")
    /\ RanWith("jiri edit", "project") /\ RanWith("jiri edit", "import")

(***************************************************************************)
(* C11, C12: reset and submit; the revision written to the manifests.      *)
(***************************************************************************)
DidWith(cmd, arg) ==
    \E i \in 1..Len(log) : log[i].cmd = cmd /\ log[i].arg = arg /\ log[i].ok

ResetCmds == {"git reset", "git checkout JIRI_HEAD"}

\* C11: a run performs the reset or the submit, never both; when the reset
\* or the submit flag is set, whatever the other flags are, the run performs
\* nothing else: no jiri, fetch, checkout, generation, binding, stamp, copy,
\* commit, manifest edit or report.
C11_ResetSubmitTerminal ==
    script = "roll" =>
        /\ ~(Ran(ResetCmds) /\ Ran({"git push"}))
        /\ (flags.reset \/ flags.submit) =>
               /\ \A i \in 1..Len(log) : log[i].cmd \in ResetCmds \cup {"git push"}
               /\ reported = {} /\ packages = {} /\ tests = {} /\ commits = {}
               /\ manifest = [project |-> MkRev(1), import |-> MkRev(0)]
               /\ readme = readme0 /\ zirconFS = zircon0
        /\ ~(flags.reset \/ flags.submit) => ~Ran(ResetCmds \cup {"git push"})

C11_Witness ==
    /\ flags.reset /\ flags.submit
    /\ ~flags.skipFuchsia /\ ~flags.skipBoring /\ ~flags.skipZircon
    /\ pc = "exit" /\ exit = "ok"
    /\ DidWith("git checkout JIRI_HEAD", Src)

IsHex(c) == \E i \in 1..Len(Hex) : Hex[i] = c

\* a full commit id: RevLen hex digits and nothing else
IsCommitId(s) == Len(s) = RevLen /\ \A i \in 1..Len(s) : IsHex(s[i])

\* C12: a manifest entry always holds a full commit id, never the commit-ish
\* of the -commit flag: once jiri edit has run, the project entry is HEAD of
\* boringssl/src and the import entry is HEAD of boringssl, as resolved
\* after the checkout.
C12_ManifestHoldsResolvedHead ==
    /\ IsCommitId(manifest.project) /\ manifest.project # commit
    /\ IsCommitId(manifest.import) /\ manifest.import # commit
    /\ DidWith("jiri edit", "project") => manifest.project = head[Src]
    /\ DidWith("jiri edit", "import") => manifest.import = head[Boring]

C12_Witness ==
    /\ DidWith("git checkout", Src) /\ head[Src] = MkRev(2)
    /\ DidWith("jiri edit", "project") /\ manifest.project = MkRev(2)
    /\ DidWith("jiri edit", "import") /\ manifest.import = CommitRev(Boring, 1)

(***************************************************************************)
(* C13: the recorded revisions at the report.                              *)
(***************************************************************************)
RECURSIVE HexSuffix(_)
\* the longest run of hex digits that ends s
HexSuffix(s) ==
    IF s # <<>> /\ IsHex(s[Len(s)])
    THEN Append(HexSuffix(SubSeq(s, 1, Len(s) - 1)), s[Len(s)])
    ELSE <<>>

\* the revision a README carries: the hex digits before the "/" that ends
\* the file (white space after it aside); <<>> when it does not end so
ReadmeRevision(bytes) ==
    LET t == TrimRight(bytes)
    IN IF t # <<>> /\ t[Len(t)] = "/"
       THEN HexSuffix(SubSeq(t, 1, Len(t) - 1))
       ELSE <<>>

\* C13 as claimed: at the report of a roll whose source sync ran, the
\* revision of HEAD of boringssl/src, the revision in the README of the
\* subset and the project entry of the manifest are equal.
C13_Claimed ==
    (Did("report") /\ DidWith("git checkout", Src)) =>
        /\ manifest.project = NewRevision
        /\ ReadmeRevision(readme.bytes) = NewRevision

\* C13 amended: at the report of a roll whose source sync and subset sync
\* both ran, the project entry of the manifest is the revision of HEAD of
\* boringssl/src, and the README holds that revision and "/" in the bytes
\* right before its last byte (from offset 0 in a file of at most
\* RevLen + 1 bytes); that is the revision the README carries when it ended
\* in a revision of RevLen digits, "/" and one end of line.
C13_AgreeWhenStamped ==
    (Did("report") /\ DidWith("git checkout", Src) /\ Did("WriteAt")) =>
        /\ manifest.project = NewRevision
        /\ LET off == IF RevLen + 1 < Len(readme0.bytes)
                      THEN Len(readme0.bytes) - (RevLen + 2) ELSE 0
           IN SubSeq(readme.bytes, off + 1, off + RevLen + 1)
                  = NewRevision \o <<"/">>
        /\ (\E old \in OldRevs :
                /\ Len(old) = RevLen
                /\ readme0.bytes = MkReadme(UrlPrefix, old, <<"\n">>))
           => ReadmeRevision(readme.bytes) = NewRevision

C13_Witness ==
    /\ Did("report") /\ DidWith("git checkout", Src) /\ Did("WriteAt")
    /\ head[Src] = MkRev(2) /\ manifest.project = MkRev(2)
    /\ readme0.bytes = GoodReadme
    /\ ReadmeRevision(readme0.bytes) = MkHex(3, RevLen)
    /\ ReadmeRevision(readme.bytes) = MkRev(2)

(***************************************************************************)
(* C14: the report of the files needing manual intervention.               *)
(***************************************************************************)
\* no command, write or walk step failed; the digest of a missing file aside
NoOutsideFailure ==
    \A i \in 1..Len(log) : ~log[i].ok => log[i].cmd = "open"

\* C14 as claimed: a run whose reconciliation flagged a file ends with a
\* failure status and has reported every file of the Manual-Intervention
\* Set (runs cut short by a failed command or a failed write aside).
C14_Claimed ==
    (pc = "exit" /\ manual_files # {} /\ NoOutsideFailure) =>
        exit = "fatal" /\ manual_files \subseteq reported

(***************************************************************************)
(* C15: the skip flags.                                                    *)
(***************************************************************************)
\* C15: in a run of the pipeline (neither reset nor submit), a stage whose
\* skip flag is set performs none of its operations and leaves what it
\* writes as it was, whatever the other skip flags are; and a run that
\* returns normally has performed every stage whose skip flag is not set.
C15_SkipSwitchesIndependent ==
    (script = "roll" /\ ~flags.reset /\ ~flags.submit) =>
        /\ flags.skipFuchsia => ~Ran({"jiri status", "jiri update"})
        /\ flags.skipBoring =>
               /\ ~Ran({"git fetch", "git checkout", "generate_build_files"})
               /\ ~RanWith("jiri edit", "project")
               /\ manifest.project = MkRev(1) /\ buildFiles = MkRev(1)
               /\ head[Src] = MkRev(1)
        /\ flags.skipRust => ~Ran({"bindgen.sh"})
        /\ flags.skipZircon =>
               /\ ~Ran({"stat", "WriteAt", "walk", "open", "cp"})
               /\ readme = readme0 /\ zirconFS = zircon0
               /\ manual_files = {}
        /\ flags.skipGarnet =>
               /\ ~Ran(CommitCmds) /\ ~RanWith("jiri edit", "import")
               /\ manifest.import = MkRev(0)
        /\ exit = "ok" =>
               /\ ~flags.skipFuchsia => Did("jiri status") /\ Did("jiri update")
               /\ ~flags.skipBoring =>
                      /\ Did("git fetch") /\ Did("git checkout")
                      /\ Did("generate_build_files")
                      /\ DidWith("jiri edit", "project")
               /\ ~flags.skipRust => Did("bindgen.sh")
               /\ ~flags.skipZircon => Did("WriteAt") /\ WalkDone
               /\ ~flags.skipGarnet =>
                      /\ DidWith("git status", Garnet)
                      /\ DidWith("jiri edit", "import")
               /\ Did("report")

C15_Witness ==
    /\ script = "roll" /\ exit = "ok"
    /\ ~flags.skipBoring /\ flags.skipRust /\ flags.skipZircon
    /\ ~flags.skipGarnet /\ flags.skipFuchsia
    /\ DidWith("git commit", Boring) /\ DidWith("jiri edit", "import")
    /\ ~Ran({"bindgen.sh", "WriteAt", "cp"})

(***************************************************************************)
(* C16, C17: skip-listed files and files with manual edits.                *)
(***************************************************************************)
\* C16: a file of skipped_files is never copied over and never put in the
\* Manual-Intervention Set, whether its upstream counterpart is missing,
\* the same or different.
C16_SkippedUntouched ==
    \A f \in skipped_files :
        /\ f \notin manual_files
        /\ ~RanWith("cp", f) /\ ~RanWith("open", f)
        /\ f \in TreeStems => zirconFS[f] = zircon0[f]

C16_Witness ==
    /\ WalkDone /\ pc = "exit"
    /\ zircon0["/rules.mk"] # Absent
    /\ boringPath("/rules.mk") \notin {Absent, zircon0["/rules.mk"]}
    /\ zirconFS["/rules.mk"] = zircon0["/rules.mk"]
    /\ Did("cp")

\* C17: a file of edited_files is never written by the walk; after the
\* walk it is in the Manual-Intervention Set exactly when the digest of its
\* upstream counterpart is not the recorded one (while the walk runs: only
\* when the counterpart is missing or has another digest); and no file is
\* both copied and in the Manual-Intervention Set.
C17_EditedNeverOverwritten ==
    /\ \A f \in DOMAIN edited_files :
           /\ zirconFS[f] = zircon0[f] /\ ~RanWith("cp", f)
           /\ f \in manual_files =>
                  \/ boringPath(f) = Absent
                  \/ Sha256(boringPath(f)) # edited_files[f]
           /\ (WalkDone /\ f \in SubsetFiles) =>
                  (f \in manual_files <=> Sha256(boringPath(f)) # edited_files[f])
    /\ \A f \in TreeStems : ~(f \in manual_files /\ RanWith("cp", f))

C17_Witness ==
    /\ WalkDone
    /\ BaseH \notin manual_files /\ "/a.c" \notin manual_files
    /\ boringPath(BaseH) # Absent /\ boringPath(BaseH) # zircon0[BaseH]
    /\ zirconFS[BaseH] = zircon0[BaseH]
    /\ DidWith("cp", "/a.c")

(***************************************************************************)
(* C18: the two places an upstream counterpart is looked for.              *)
(***************************************************************************)
\* C18: the counterpart of a subset file is the file of that name under
\* boringssl when there is one, whatever boringssl/src holds, else the one
\* under boringssl/src: that is the file copied and the file whose digest
\* decides the copy; a file is taken as missing only when neither exists.
C18_RootThenSrc ==
    \A f \in TreeStems :
        /\ (DidWith("cp", f) /\ boringFS[f] # Absent) => zirconFS[f] = boringFS[f]
        /\ (DidWith("cp", f) /\ boringFS[f] = Absent) =>
               srcFS[f] # Absent /\ zirconFS[f] = srcFS[f]
        /\ (boringFS[f] # Absent /\ boringFS[f] = zircon0[f]) => ~RanWith("cp", f)
        /\ (boringFS[f] = Absent /\ srcFS[f] = zircon0[f]) => ~RanWith("cp", f)
        /\ RanWith("open", f) => boringFS[f] = Absent /\ srcFS[f] = Absent
        /\ (f \in manual_files /\ f \notin DOMAIN edited_files) =>
               boringFS[f] = Absent /\ srcFS[f] = Absent
        /\ (WalkDone /\ f \in SubsetFiles \ skipped_files) =>
               boringFS[f] # Absent \/ srcFS[f] # Absent

C18_Witness ==
    /\ WalkDone
    /\ boringFS["/a.c"] # Absent /\ srcFS["/a.c"] # Absent
    /\ boringFS["/a.c"] # srcFS["/a.c"]
    /\ DidWith("cp", "/a.c") /\ zirconFS["/a.c"] = boringFS["/a.c"]
    /\ boringFS[BaseH] = Absent /\ srcFS[BaseH] = BaselineContent
    /\ manual_files = {}

(***************************************************************************)
(* C19: the sets main prints at the end.                                   *)
(***************************************************************************)
BoringEntries ==
    {"garnet/packages/boringssl", "/system/test/disabled/crypto_test",
     "/system/test/ssl_test", Boring}

ZirconEntries == {"/boot/test/sys/crypto_test", Zircon}

PendingSets == packages \cup tests \cup commits

\* the stage has run to its end without a failure
BoringDone ==
    /\ ~flags.skipBoring
    /\ Did("git fetch") /\ Did("git checkout") /\ Did("generate_build_files")
    /\ DidWith("jiri edit", "project")

ZirconDone == ~flags.skipZircon /\ Did("WriteAt") /\ WalkDone /\ pc # "walk"

GarnetDone ==
    /\ ~flags.skipGarnet
    /\ DidWith("jiri edit", "import") /\ DidWith("git status", Garnet)
    /\ pc \in {"report", "return", "exit"} /\ exit # "fatal"

\* C19: in roll_boringssl.go, packages, tests and commits hold the entries of exactly the stages
\* that were not skipped and have run to their end without a failure;
\* adding an entry a set already holds leaves the set as it is.
C19_PendingFromCompletedStages ==
    script = "roll" =>
    /\ PendingSets \subseteq BoringEntries \cup ZirconEntries \cup {Garnet}
    /\ packages \subseteq BoringEntries /\ commits \subseteq Repos
    /\ \A e \in BoringEntries : e \in PendingSets <=> BoringDone
    /\ \A e \in ZirconEntries : e \in PendingSets <=> ZirconDone
    /\ Garnet \in commits <=> GarnetDone
    /\ \A e \in commits : Add(commits, {e}, TRUE) = commits
    /\ \A e \in tests : Add(tests, {e}, TRUE) = tests

C19_Witness ==
    /\ pc = "exit" /\ exit = "ok"
    /\ commits = {Boring, Zircon, Garnet}
    /\ Cardinality(tests) = 3 /\ packages = {"garnet/packages/boringssl"}
    /\ reported = PendingSets

(***************************************************************************)
(* C20: the stamp on a short README.                                       *)
(***************************************************************************)
\* the README is shorter than the URL prefix, a revision and the "/"
ShortReadme(bytes) == Len(bytes) < Len(UrlPrefix) + RevLen + 1

\* C20 as claimed: the offset of the stamp is never negative and is 0 for a
\* README shorter than the prefix, the revision and the "/"; on such a
\* README the stamp does not succeed but fails with a format error; and the
\* stamp never changes the length of the file.
C20_Claimed ==
    Ran({"WriteAt"}) =>
        LET off == StampOffset(Len(readme0.bytes), Len(gitRevList(head[Src])))
        IN /\ off >= 0
           /\ ShortReadme(readme0.bytes) =>
                  off = 0 /\ ~Did("WriteAt") /\ exit = "fatal"
           /\ Len(readme.bytes) = Len(readme0.bytes)

\* the part of C20 the stamp keeps: the offset is never negative
C20_OffsetNotNegative ==
    Ran({"WriteAt"}) =>
        StampOffset(Len(readme0.bytes), Len(gitRevList(head[Src]))) >= 0

(***************************************************************************)
(* C21: the status check before the workspace update.                      *)
(***************************************************************************)
\* C21: unless -skip-fuchsia is set, the first thing a roll runs is jiri
\* status; when it prints anything the run ends there with a failure:
\* no jiri update, fetch, checkout, stamp, copy, commit or manifest edit
\* follows, and nothing the roll writes has changed.
C21_StatusCheckFirst ==
    (script = "roll" /\ ~flags.reset /\ ~flags.submit /\ ~flags.skipFuchsia) =>
        /\ log # <<>> => log[1].cmd = "jiri status"
        /\ \A i \in 1..Len(log) :
               (log[i].cmd = "jiri status" /\ log[i].ok /\ log[i].arg # "") =>
                   /\ i = 1 /\ Len(log) = 1
                   /\ pc = "exit" /\ exit = "fatal"
                   /\ head = [r \in Repos |-> JiriHead(r)]
                   /\ manifest = [project |-> MkRev(1), import |-> MkRev(0)]
                   /\ readme = readme0 /\ zirconFS = zircon0
                   /\ PendingSets = {}
        /\ Ran({"jiri update"}) =>
               log[1] = Entry("jiri status", "", TRUE) /\ log[2].cmd = "jiri update"

C21_Witness ==
    /\ script = "roll" /\ ~flags.skipFuchsia /\ ~flags.skipBoring
    /\ ~flags.skipZircon /\ ~flags.skipGarnet
    /\ log = <<Entry("jiri status", "dirty projects", TRUE)>>
    /\ dirty = {Zircon}
    /\ pc = "exit" /\ exit = "fatal"

(***************************************************************************)
(* C22: the commits and the Garnet manifest.                               *)
(***************************************************************************)
\* the Garnet manifest entry has been handed to jiri edit
GarnetEdited == RanWith("jiri edit", "import")

\* C22: when jiri edit is run on the Garnet manifest every repository of
\* commits has been through commitChanges and has nothing left to commit,
\* so the entry written is HEAD of boringssl, this roll's commit when one
\* was made; the commit commands in garnet all come after that edit and
\* nothing but them and the report follows it; and git add and git commit
\* run only in a repository whose git status printed changes.
C22_CommitsBeforeGarnetEdit ==
    script = "roll" =>
        /\ GarnetEdited =>
               \A r \in commits \ {Garnet} :
                   DidWith("git status", r) /\ r \notin dirty
        /\ DidWith("jiri edit", "import") =>
               /\ manifest.import = head[Boring]
               /\ DidWith("git commit", Boring) =>
                      manifest.import = CommitRev(Boring, runNo)
        /\ \A i, j \in 1..Len(log) :
               (i < j /\ log[i].cmd = "jiri edit" /\ log[i].arg = "import") =>
                   \/ log[j].cmd \in {"git rev-list", "report"}
                   \/ log[j].cmd \in CommitCmds /\ log[j].arg = Garnet
        /\ \A j \in 1..Len(log) :
               (log[j].cmd \in CommitCmds /\ log[j].arg = Garnet) =>
                   \E i \in 1..(j - 1) :
                       log[i] = Entry("jiri edit", "import", TRUE)
        /\ pc \in {"commit_add", "commit_commit"} => pending.repo \in dirty
        /\ \A r \in Repos :
               (log # <<>> /\ log[Len(log)] = Entry("git status", r, TRUE)) =>
                   (pc = "commit_add" <=> r \in dirty)
        /\ \A r \in Repos : RanWith("git commit", r) => DidWith("git add", r)

C22_Witness ==
    /\ script = "roll" /\ pc = "exit" /\ exit = "ok"
    /\ commits = {Boring, Zircon, Garnet}
    /\ DidWith("git commit", Boring) /\ DidWith("git commit", Garnet)
    /\ DidWith("git commit", Zircon)
    /\ manifest.import = CommitRev(Boring, 1)
    /\ head[Garnet] = CommitRev(Garnet, 1)

\* a roll to the revision already checked out: nothing to commit in
\* boringssl, so the Garnet manifest is unchanged and garnet gets no commit
C22_WitnessClean ==
    /\ script = "roll" /\ pc = "exit" /\ exit = "ok"
    /\ commits = {Boring, Zircon, Garnet}
    /\ DidWith("git status", Boring) /\ ~RanWith("git add", Boring)
    /\ DidWith("git commit", Zircon)
    /\ DidWith("jiri edit", "import") /\ manifest.import = MkRev(0)
    /\ DidWith("git status", Garnet) /\ ~RanWith("git commit", Garnet)

(***************************************************************************)
(* C23: the root-certificate bundle (part_002).                            *)
(***************************************************************************)
\* the steps of updateBundle before certdata.pem is written, in order
BundleSteps ==
    <<Entry("http get", "certdata", TRUE),
      Entry("write", "certdata.stamp", TRUE),
      Entry("write", "certdata.txt", TRUE),
      Entry("go run convert_mozilla_certdata.go", Boring, TRUE)>>

SourceCmds == {"git fetch", "git checkout", "git rev-list", "jiri edit",
               "generate_build_files"}

BundleCmds == {"http get", "write", "go run convert_mozilla_certdata.go"}

\* position of entry e in the log, 0 when it is not there
LogIndex(e) ==
    IF \E i \in 1..Len(log) : log[i] = e
    THEN CHOOSE i \in 1..Len(log) : log[i] = e
    ELSE 0

\* C23: in the root-certificate script certdata.pem is written only after
\* the download, the write of certdata.stamp, the write of certdata.txt
\* and the conversion have succeeded, in this order; when one of them fails
\* the run ends with a failure and certdata.pem is as it was; and the
\* bundle is touched only when -skip-bundle is not set and the source
\* update was skipped or ran to its end without a failure.
C23_PemAfterAllSteps ==
    script = "certs" =>
        /\ (bundle.pem # "old" \/ RanWith("write", "certdata.pem")) =>
               /\ \A k \in 1..Len(BundleSteps) : LogIndex(BundleSteps[k]) > 0
               /\ \A k \in 1..(Len(BundleSteps) - 1) :
                      LogIndex(BundleSteps[k]) < LogIndex(BundleSteps[k + 1])
               /\ log[Len(log)].cmd = "write" /\ log[Len(log)].arg = "certdata.pem"
               /\ LogIndex(BundleSteps[Len(BundleSteps)]) = Len(log) - 1
        /\ \A i \in 1..Len(log) :
               (~log[i].ok /\ log[i].arg # "certdata.pem") =>
                   /\ exit = "fatal" /\ i = Len(log)
                   /\ bundle.pem = "old"
        /\ (Ran(BundleCmds) \/ bundle # [stamp |-> "old", txt |-> "old", pem |-> "old"])
           => /\ ~flags.skipBundle
              /\ \A i \in 1..Len(log) : log[i].cmd \in SourceCmds => log[i].ok
              /\ ~flags.skipBoring =>
                     /\ Did("git fetch") /\ Did("git checkout")
                     /\ Did("jiri edit") /\ Did("generate_build_files")
              /\ flags.skipBoring => ~Ran(SourceCmds)

C23_Witness ==
    /\ script = "certs" /\ pc = "exit" /\ exit = "ok"
    /\ ~flags.skipBoring /\ Did("generate_build_files")
    /\ bundle = [stamp |-> "new", txt |-> "new", pem |-> "new"]
    /\ log[Len(log)] = Entry("write", "certdata.pem", TRUE)

\* a failed conversion after both files were written: certdata.pem is kept
C23_WitnessFailure ==
    /\ script = "certs" /\ exit = "fatal" /\ log # <<>>
    /\ log[Len(log)] = Entry("go run convert_mozilla_certdata.go", Boring, FALSE)
    /\ bundle = [stamp |-> "new", txt |-> "new", pem |-> "old"]

=============================================================================
